---------------------------- MODULE Spec2Model ----------------------------
(***************************************************************************)
(* ecsctl: the two command handlers of src/cmd.                            *)
(*                                                                         *)
(*   clusters list          clustersListRun        (clusters_list.go)      *)
(*   task-definitions run   taskDefinitionsRunRun  (task_definitions_run.go)*)
(*                                                                         *)
(* The remote API (ECS, CloudWatch Logs) is the environment: every         *)
(* response is drawn nondeterministically from a small set.  A Go pointer  *)
(* is a sequence of length at most one: <<>> is nil, <<x>> points to x.    *)
(* A Go string that the code splits is a sequence of tokens, "/" being the *)
(* separator character and every other token a run of other characters.   *)
(***************************************************************************)
EXTENDS Integers, Sequences, FiniteSets, TLC

(***************************************************************************)
(* Bounds of the model.                                                    *)
(***************************************************************************)
\* events the log source delivers during one run of the follow loop
MaxDelivered == 3
\* events in one page of FilterLogEvents results
MaxPageEvents == 2
\* failed log queries during one run, in the specification Spec
MaxLogErrors == 2
\* events the log source delivers during one run, in the specification SpecRetry
MaxRetryDelivered == 0
\* ListClusters requests of one run
MaxPages == 2
\* cluster ARNs in one ListClusters page
MaxClusterArns == 1

(***************************************************************************)
(* Program constants and the values the environment draws from.            *)
(***************************************************************************)
retryLimit == 50

Nil == <<>>
Ptr(x) == <<x>>
Deref(p) == p[1]

Commands == {"clusters list", "task-definitions run"}
EventIds == {"a", "b"}
Timestamps == {100, 150}
Events == [id : EventIds, ts : Timestamps]
Statuses == {"RUNNING", "STOPPED"}
LogDrivers == {"awslogs", "json-file"}
ClusterArns == {"c1", "c2"}
Tokens == {"t1", "t2"}
\* task ARNs in the short format (task/<id>) and the long one (task/<cluster>/<id>)
TaskArns == { <<"arn:aws:ecs:r:1:task", "/", "id1">>,
              <<"arn:aws:ecs:r:1:task", "/", "c1", "/", "id1">> }

SeqsUpTo(S, n) == UNION { [1..k -> S] : k \in 0..n }

VARIABLES
    cmd,            \* the subcommand cobra dispatches to
    pc,             \* position of the main goroutine
    exitCode,       \* Nil while the process runs, Ptr(code) once it has ended
    exitLine,       \* source line of the os.Exit (or panic) that ended it, 0 if none
    follow,         \* --follow
    exit,           \* --exit
    td,             \* Nil, or Ptr(LogConfiguration of ContainerDefinitions[0])
    taskArn,        \* taskResult.Tasks[0].TaskArn
    taskID,         \* tSplited[1]
    listener,       \* the signal goroutine: "none", "waiting", "StopTask"
    stopTaskCalls,  \* the StopTask calls issued: the Task argument and the result
    issued,         \* the API operations called so far
    lastSeenTime,   \* *int64
    seenEventIDs,   \* map[string]bool: Nil (nil map) or Ptr(set of keys)
    startTime,      \* cwInput.StartTime
    retryCount,
    rendered,       \* events handed to printEvent, in order
    trace,          \* one record per event handlePage has looked at: the event, the
                    \* StartTime of its query, the watermark it was looked up under
                    \* and whether it was printed
    consecErrs,     \* failed log queries since the last successful one
    lastResp,       \* last API result the main goroutine handled
    budget,         \* what the log source does at most in this run
    input,          \* input.NextToken of the ListClustersInput
    nextToken,
    listed,         \* cluster ARNs printed, in order
    requests,       \* NextToken of every ListClusters request issued
    responses       \* every ListClusters response received

runVars == <<follow, exit, td, taskArn, taskID, listener, stopTaskCalls>>
loopState == <<lastSeenTime, seenEventIDs, startTime, retryCount, rendered,
               trace, consecErrs>>
loopVars == <<loopState, lastResp>>
listVars == <<input, nextToken, listed, requests, responses>>
vars == <<cmd, pc, exitCode, exitLine, budget, issued, runVars, loopVars, listVars>>

\* os.Exit(code) at the given source line
Exit(code, line) ==
    /\ pc' = "exited"
    /\ exitCode' = Ptr(code)
    /\ exitLine' = line

\* a run-time panic of the Go runtime ends the process with status 2
Panic(line) == Exit(2, line)

Running == pc /= "exited" /\ pc /= "returned"


(***************************************************************************)
(* clusters list (clusters_list.go)                                        *)
(***************************************************************************)
Concat(ss) ==
    LET RECURSIVE cat(_)
        cat(i) == IF i > Len(ss) THEN <<>> ELSE ss[i] \o cat(i + 1)
    IN  cat(1)

\* a slip of lines 17-19: the token is never copied into the request
RequestTokenKept(tok, inp) == inp

\* lines 17-19: the token the next request carries
RequestToken(tok, inp) == IF tok /= Nil THEN tok ELSE inp

\* line 32: whether the loop ends after this page
LastClusterPage(result) == result.NextToken = Nil

ListResponses ==
    [err : {FALSE}, ClusterArns : SeqsUpTo(ClusterArns, MaxClusterArns),
     NextToken : {Nil} \cup {Ptr(t) : t \in Tokens}]

ListError == [err |-> TRUE, ClusterArns |-> <<>>, NextToken |-> Nil]

\* lines 17-21 and 28-36: one request that succeeds
ListClustersOk ==
    /\ cmd = "clusters list"
    /\ pc = "ListClusters"
    /\ Len(requests) < MaxPages
    /\ \E result \in ListResponses :
        /\ input' = RequestToken(nextToken, input)
        /\ requests' = Append(requests, input')
        /\ issued' = issued \cup {"ListClusters"}
        /\ responses' = Append(responses, result)
        /\ listed' = listed \o result.ClusterArns
        /\ IF LastClusterPage(result)
           THEN /\ pc' = "returned"
                /\ nextToken' = nextToken
           ELSE /\ pc' = "ListClusters"
                /\ nextToken' = result.NextToken
    /\ UNCHANGED <<cmd, exitCode, exitLine, budget, runVars, loopVars>>

\* a slip of lines 23-26: the failed request is issued again
ListClustersErrRetried ==
    /\ cmd = "clusters list"
    /\ pc = "ListClusters"
    /\ Len(requests) < MaxPages
    /\ input' = RequestToken(nextToken, input)
    /\ requests' = Append(requests, input')
    /\ issued' = issued \cup {"ListClusters"}
    /\ responses' = Append(responses, ListError)
    /\ UNCHANGED <<cmd, pc, exitCode, exitLine, budget, nextToken, listed,
                   runVars, loopVars>>

\* lines 17-26: one request that fails
ListClustersErr ==
    /\ cmd = "clusters list"
    /\ pc = "ListClusters"
    /\ Len(requests) < MaxPages
    /\ input' = RequestToken(nextToken, input)
    /\ requests' = Append(requests, input')
    /\ issued' = issued \cup {"ListClusters"}
    /\ responses' = Append(responses, ListError)
    /\ Exit(1, 25)
    /\ UNCHANGED <<cmd, budget, nextToken, listed, runVars, loopVars>>

(***************************************************************************)
(* task-definitions run: the log watermark (task_definitions_run.go)       *)
(***************************************************************************)
\* strings.Split(s, sep) on a string given as a sequence of tokens
Split(s, sep) ==
    LET RECURSIVE split(_, _, _)
        split(i, cur, acc) ==
            IF i > Len(s) THEN Append(acc, cur)
            ELSE IF s[i] = sep THEN split(i + 1, <<>>, Append(acc, cur))
            ELSE split(i + 1, Append(cur, s[i]), acc)
    IN  split(1, <<>>, <<>>)

\* the closure state of handlePage: what lines 139-140 declare, what printEvent
\* has written, the StartTime of the query that is running, and whether a
\* run-time panic has happened
LoopState ==
    [lastSeenTime |-> lastSeenTime, seenEventIDs |-> seenEventIDs,
     rendered |-> rendered, trace |-> trace, start |-> startTime,
     panicked |-> FALSE]

\* lines 144-146
clearSeenEventIds(st) == [st EXCEPT !.seenEventIDs = Ptr({})]

\* lines 148-150: an assignment to an entry of a nil map panics
addSeenEventIDs(st, id) ==
    IF st.seenEventIDs = Nil
    THEN [st EXCEPT !.panicked = TRUE]
    ELSE [st EXCEPT !.seenEventIDs = Ptr(Deref(st.seenEventIDs) \cup {id})]

\* a slip of line 153: >= for >
LaterOrEqual(ts, last) == last = Nil \/ ts >= Deref(last)

\* a slip of line 153: != for >
Differs(ts, last) == last = Nil \/ ts /= Deref(last)

\* line 153
Later(ts, last) == last = Nil \/ ts > Deref(last)

\* a slip of lines 152-157: the set is allocated with the first event and
\* not cleared when the watermark moves
updateLastSeenTimeKeepsIds(st, ts) ==
    IF st.lastSeenTime = Nil
    THEN clearSeenEventIds([st EXCEPT !.lastSeenTime = Ptr(ts)])
    ELSE IF ts > Deref(st.lastSeenTime)
    THEN [st EXCEPT !.lastSeenTime = Ptr(ts)]
    ELSE st

\* lines 152-157
updateLastSeenTime(st, ts) ==
    IF Later(ts, st.lastSeenTime)
    THEN clearSeenEventIds([st EXCEPT !.lastSeenTime = Ptr(ts)])
    ELSE st

\* a slip of line 167: any recorded identifier makes the event a duplicate
SeenAny(st, id) == st.seenEventIDs /= Nil /\ Deref(st.seenEventIDs) /= {}

\* a slip of line 167: the lookup never finds the identifier
NeverSeen(st, id) == FALSE

\* line 167: the lookup, which is also defined on a nil map
Seen(st, id) == st.seenEventIDs /= Nil /\ id \in Deref(st.seenEventIDs)

\* lines 166-170: the body of the loop over page.Events
handleEvent(st, event) ==
    LET st1 == updateLastSeenTime(st, event.ts)
        seen == Seen(st1, event.id)
        st2 == [st1 EXCEPT !.trace =
                   Append(@, [id |-> event.id, ts |-> event.ts,
                              start |-> st1.start,
                              wm |-> Deref(st1.lastSeenTime), printed |-> ~seen])]
    IN  IF seen THEN st2
        ELSE addSeenEventIDs([st2 EXCEPT !.rendered = Append(@, event)], event.id)

\* lines 164-173: handlePage on the events of one page
handlePage(st, events) ==
    LET RECURSIVE loop(_, _)
        loop(s, i) ==
            IF i > Len(events) \/ s.panicked THEN s
            ELSE loop(handleEvent(s, events[i]), i + 1)
    IN  loop(st, 1)


(***************************************************************************)
(* task-definitions run: the command (task_definitions_run.go)             *)
(***************************************************************************)
NoResp == [api |-> "none", result |-> "none"]

\* lines 76-82: DescribeTaskDefinition fails
DescribeTaskDefinitionErr ==
    /\ cmd = "task-definitions run"
    /\ pc = "DescribeTaskDefinition"
    /\ issued' = issued \cup {"DescribeTaskDefinition"}
    /\ lastResp' = [api |-> "DescribeTaskDefinition", result |-> "err"]
    /\ Exit(1, 81)
    /\ UNCHANGED <<cmd, budget, runVars, loopState, listVars>>

\* lines 76-84: DescribeTaskDefinition answers; logConfiguration is the
\* LogConfiguration of the first container definition, Nil when it has none
DescribeTaskDefinitionOk ==
    /\ cmd = "task-definitions run"
    /\ pc = "DescribeTaskDefinition"
    /\ \E logConfiguration \in {Nil} \cup {Ptr(d) : d \in LogDrivers} :
        td' = Ptr(logConfiguration)
    /\ issued' = issued \cup {"DescribeTaskDefinition"}
    /\ lastResp' = [api |-> "DescribeTaskDefinition", result |-> "ok"]
    /\ pc' = "RunTask"
    /\ UNCHANGED <<cmd, exitCode, exitLine, budget, follow, exit, taskArn, taskID,
                   listener, stopTaskCalls, loopState, listVars>>

\* a slip of lines 95-98: the error is printed and the code runs on
RunTaskErrIgnored ==
    /\ cmd = "task-definitions run"
    /\ pc = "RunTask"
    /\ issued' = issued \cup {"RunTask"}
    /\ lastResp' = [api |-> "RunTask", result |-> "err"]
    /\ pc' = "FilterLogEventsPages"
    /\ UNCHANGED <<cmd, exitCode, exitLine, budget, runVars, loopState, listVars>>

\* lines 90-98: RunTask fails
RunTaskErr ==
    /\ cmd = "task-definitions run"
    /\ pc = "RunTask"
    /\ issued' = issued \cup {"RunTask"}
    /\ lastResp' = [api |-> "RunTask", result |-> "err"]
    /\ Exit(1, 97)
    /\ UNCHANGED <<cmd, budget, runVars, loopState, listVars>>

\* lines 125-126: the task ID the loop uses; Nil when the index is out of range
TaskIDOf(arn) ==
    LET tSplited == Split(arn, "/")
    IN  IF Len(tSplited) < 2 THEN Nil ELSE Ptr(tSplited[2])

\* lines 128-129: whether the follow loop is entered
Recognized(logDriver) == logDriver = "awslogs"

\* lines 90-131: RunTask answers with the given tasks; the code runs on to the
\* first call of the loop or to the end of the process
RunTaskOk ==
    /\ cmd = "task-definitions run"
    /\ pc = "RunTask"
    /\ issued' = issued \cup {"RunTask"}
    /\ \E tasks \in {<<>>} \cup {<<a>> : a \in TaskArns} :
        IF Len(tasks) = 0 THEN
            /\ lastResp' = [api |-> "RunTask", result |-> "empty"]
            /\ Exit(1, 102)
            /\ UNCHANGED <<taskArn, taskID, listener>>
        ELSE IF ~follow THEN
            /\ lastResp' = [api |-> "RunTask", result |-> "ok"]
            /\ Exit(0, 106)
            /\ UNCHANGED <<taskArn, taskID, listener>>
        ELSE
            /\ lastResp' = [api |-> "RunTask", result |-> "ok"]
            /\ listener' = IF exit THEN "waiting" ELSE "none"
            /\ taskArn' = tasks[1]
            /\ IF TaskIDOf(tasks[1]) = Nil THEN
                   /\ Panic(126)
                   /\ UNCHANGED taskID
               ELSE
                   /\ taskID' = Deref(TaskIDOf(tasks[1]))
                   /\ IF Deref(td) = Nil THEN Panic(128)
                      ELSE IF ~Recognized(Deref(Deref(td))) THEN Exit(0, 130)
                      ELSE /\ pc' = "FilterLogEventsPages"
                           /\ UNCHANGED <<exitCode, exitLine>>
    /\ UNCHANGED <<cmd, budget, follow, exit, td, stopTaskCalls, loopState, listVars>>

\* lines 113-116: the listener receives SIGTERM or SIGINT and calls StopTask
Signal ==
    /\ listener = "waiting"
    /\ Running
    /\ listener' = "StopTask"
    /\ stopTaskCalls' = Append(stopTaskCalls, [Task |-> taskArn, result |-> "pending"])
    /\ issued' = issued \cup {"StopTask"}
    /\ UNCHANGED <<cmd, pc, exitCode, exitLine, budget, follow, exit, td, taskArn,
                   taskID, loopVars, listVars>>

\* a slip of lines 116-121: the result of StopTask is checked like the others
StopTaskReturnChecked ==
    /\ listener = "StopTask"
    /\ Running
    /\ \E result \in {"ok", "err"} :
        /\ stopTaskCalls' = [stopTaskCalls EXCEPT ![Len(stopTaskCalls)].result = result]
        /\ Exit(IF result = "err" THEN 1 ELSE 0, 121)
    /\ UNCHANGED <<cmd, budget, issued, follow, exit, td, taskArn, taskID, listener,
                   loopVars, listVars>>

\* lines 116-121: StopTask returns, with or without an error, and the listener
\* ends the process
StopTaskReturn ==
    /\ listener = "StopTask"
    /\ Running
    /\ \E result \in {"ok", "err"} :
        stopTaskCalls' = [stopTaskCalls EXCEPT ![Len(stopTaskCalls)].result = result]
    /\ Exit(0, 121)
    /\ UNCHANGED <<cmd, budget, issued, follow, exit, td, taskArn, taskID, listener,
                   loopVars, listVars>>

\* a slip of lines 188-190: the start time is set once and never moved
SetStartTimeOnce(last, start) ==
    IF start = Nil /\ last /= Nil THEN Ptr(Deref(last)) ELSE start

\* lines 188-190
SetStartTime(last, start) == IF last /= Nil THEN Ptr(Deref(last)) ELSE start

\* a slip of line 182: > for >=
CeilingPassed(count) == count > retryLimit

\* line 182
CeilingReached(count) == count >= retryLimit

\* lines 178 and 164-173: FilterLogEventsPages hands one page to handlePage;
\* with the last page it returns nil and the code runs on to DescribeTasks
HandlePage ==
    /\ pc = "FilterLogEventsPages"
    /\ issued' = issued \cup {"FilterLogEvents"}
    /\ \E events \in SeqsUpTo(Events, MaxPageEvents), lastPage \in BOOLEAN :
        /\ Len(trace) + Len(events) <= budget.events
        /\ LET st == handlePage(LoopState, events)
           IN  /\ lastSeenTime' = st.lastSeenTime
               /\ seenEventIDs' = st.seenEventIDs
               /\ rendered' = st.rendered
               /\ trace' = st.trace
               /\ IF st.panicked THEN
                      /\ Panic(149)
                      /\ UNCHANGED <<startTime, consecErrs, lastResp>>
                  ELSE IF lastPage THEN
                      /\ startTime' = SetStartTime(st.lastSeenTime, startTime)
                      /\ consecErrs' = 0
                      /\ lastResp' = [api |-> "FilterLogEventsPages", result |-> "ok"]
                      /\ pc' = "DescribeTasks"
                      /\ UNCHANGED <<exitCode, exitLine>>
                  ELSE
                      UNCHANGED <<pc, exitCode, exitLine, startTime, consecErrs, lastResp>>
    /\ UNCHANGED <<cmd, budget, retryCount, runVars, listVars>>

\* a slip of lines 179-186: the tolerated error goes straight to the pause
FilterLogEventsErrContinue ==
    /\ pc = "FilterLogEventsPages"
    /\ retryCount < budget.errors
    /\ issued' = issued \cup {"FilterLogEvents"}
    /\ retryCount' = retryCount + 1
    /\ consecErrs' = consecErrs + 1
    /\ lastResp' = [api |-> "FilterLogEventsPages", result |-> "err"]
    /\ IF CeilingReached(retryCount') THEN
           /\ Exit(1, 184)
           /\ UNCHANGED startTime
       ELSE
           /\ startTime' = SetStartTime(lastSeenTime, startTime)
           /\ pc' = "Sleep"
           /\ UNCHANGED <<exitCode, exitLine>>
    /\ UNCHANGED <<cmd, budget, lastSeenTime, seenEventIDs, rendered, trace,
                   runVars, listVars>>

\* lines 178-190: FilterLogEventsPages returns an error
FilterLogEventsErr ==
    /\ pc = "FilterLogEventsPages"
    /\ retryCount < budget.errors
    /\ issued' = issued \cup {"FilterLogEvents"}
    /\ retryCount' = retryCount + 1
    /\ consecErrs' = consecErrs + 1
    /\ lastResp' = [api |-> "FilterLogEventsPages", result |-> "err"]
    /\ IF CeilingReached(retryCount') THEN
           /\ Exit(1, 184)
           /\ UNCHANGED startTime
       ELSE
           /\ startTime' = SetStartTime(lastSeenTime, startTime)
           /\ pc' = "DescribeTasks"
           /\ UNCHANGED <<exitCode, exitLine>>
    /\ UNCHANGED <<cmd, budget, lastSeenTime, seenEventIDs, rendered, trace,
                   runVars, listVars>>

\* a slip of lines 197-200: the error is tolerated like a log-query error
DescribeTasksErrTolerated ==
    /\ pc = "DescribeTasks"
    /\ issued' = issued \cup {"DescribeTasks"}
    /\ lastResp' = [api |-> "DescribeTasks", result |-> "err"]
    /\ pc' = "Sleep"
    /\ UNCHANGED <<cmd, exitCode, exitLine, budget, lastSeenTime, seenEventIDs,
                   startTime, retryCount, rendered, trace, consecErrs, runVars,
                   listVars>>

\* lines 192-200: DescribeTasks fails
DescribeTasksErr ==
    /\ pc = "DescribeTasks"
    /\ issued' = issued \cup {"DescribeTasks"}
    /\ lastResp' = [api |-> "DescribeTasks", result |-> "err"]
    /\ Exit(1, 199)
    /\ UNCHANGED <<cmd, budget, lastSeenTime, seenEventIDs, startTime, retryCount,
                   rendered, trace, consecErrs, runVars, listVars>>

\* a slip of line 203: the status is compared with another spelling
StoppedLower(status) == status = "stopped"

\* line 203
Stopped(status) == status = "STOPPED"

\* lines 192-205: DescribeTasks answers with the given tasks (their LastStatus)
DescribeTasksOk ==
    /\ pc = "DescribeTasks"
    /\ issued' = issued \cup {"DescribeTasks"}
    /\ \E tasks \in {<<>>} \cup {<<s>> : s \in Statuses} :
        IF Len(tasks) = 0 THEN
            /\ lastResp' = [api |-> "DescribeTasks", result |-> "empty"]
            /\ Panic(202)
        ELSE
            /\ lastResp' = [api |-> "DescribeTasks", result |-> tasks[1]]
            /\ IF Stopped(tasks[1]) THEN Exit(0, 204)
               ELSE /\ pc' = "Sleep"
                    /\ UNCHANGED <<exitCode, exitLine>>
    /\ UNCHANGED <<cmd, budget, lastSeenTime, seenEventIDs, startTime, retryCount,
                   rendered, trace, consecErrs, runVars, listVars>>

\* line 207
Sleep ==
    /\ pc = "Sleep"
    /\ pc' = "FilterLogEventsPages"
    /\ UNCHANGED <<cmd, exitCode, exitLine, budget, issued, runVars, loopVars, listVars>>

(***************************************************************************)
(* The specifications                                                      *)
(***************************************************************************)
InitWith(b) ==
    /\ cmd \in Commands
    /\ pc = IF cmd = "clusters list" THEN "ListClusters" ELSE "DescribeTaskDefinition"
    /\ exitCode = Nil
    /\ exitLine = 0
    /\ budget = b
    /\ follow \in (IF cmd = "clusters list" THEN {FALSE} ELSE BOOLEAN)
    /\ exit \in (IF cmd = "clusters list" THEN {FALSE} ELSE BOOLEAN)
    /\ td = Nil
    /\ taskArn = Nil
    /\ taskID = Nil
    /\ listener = "none"
    /\ stopTaskCalls = <<>>
    /\ issued = {}
    /\ lastSeenTime = Nil
    /\ seenEventIDs = Nil
    /\ startTime = Nil
    /\ retryCount = 0
    /\ rendered = <<>>
    /\ trace = <<>>
    /\ consecErrs = 0
    /\ lastResp = NoResp
    /\ input = Nil
    /\ nextToken = Nil
    /\ listed = <<>>
    /\ requests = <<>>
    /\ responses = <<>>

Init == InitWith([events |-> MaxDelivered, errors |-> MaxLogErrors])

InitRetry == InitWith([events |-> MaxRetryDelivered, errors |-> retryLimit])

Next ==
    \/ ListClustersOk
    \/ ListClustersErr
    \/ DescribeTaskDefinitionErr
    \/ DescribeTaskDefinitionOk
    \/ RunTaskErr
    \/ RunTaskOk
    \/ Signal
    \/ StopTaskReturn
    \/ HandlePage
    \/ FilterLogEventsErr
    \/ DescribeTasksErr
    \/ DescribeTasksOk
    \/ Sleep

\* every command, with a log source that delivers up to MaxDelivered events
\* and fails up to MaxLogErrors times
Spec == Init /\ [][Next]_vars

\* every command, with a log source that may fail until the retry ceiling
SpecRetry == InitRetry /\ [][Next]_vars


\* task-definitions run --follow without --exit: no listener is installed, so
\* no signal is handled
InitLive == Init /\ cmd = "task-definitions run" /\ follow /\ ~exit

\* the steps of that run when every status query succeeds
NextLive ==
    \/ DescribeTaskDefinitionErr
    \/ DescribeTaskDefinitionOk
    \/ RunTaskErr
    \/ RunTaskOk
    \/ HandlePage
    \/ FilterLogEventsErr
    \/ DescribeTasksOk
    \/ Sleep

\* the status query that finds the task stopped
DescribeTasksStopped == DescribeTasksOk /\ lastResp'.result = "STOPPED"

\* the main goroutine goes on while the process lives (lines 177-208): a pass
\* ends, the status query returns, the pause ends; the task stops for good, so
\* the status queries that go on being made come to find it stopped
Fairness ==
    /\ WF_vars(HandlePage \/ FilterLogEventsErr)
    /\ WF_vars(DescribeTasksOk)
    /\ WF_vars(Sleep)
    /\ SF_vars(DescribeTasksStopped)

\* the follow loop with successful status queries, a task that stops, finite
\* passes, fewer than retryLimit failures and no signal
SpecLive == InitLive /\ [][NextLive]_vars /\ Fairness


(***************************************************************************)
(* Properties                                                              *)
(***************************************************************************)
Last(seq) == seq[Len(seq)]

\* the events of the trace entries (of the printed ones only), in order
RECURSIVE EventsOf(_, _)
EventsOf(tr, onlyPrinted) ==
    IF tr = <<>> THEN <<>>
    ELSE LET e == [id |-> Last(tr).id, ts |-> Last(tr).ts]
             front == EventsOf(SubSeq(tr, 1, Len(tr) - 1), onlyPrinted)
         IN  IF onlyPrinted /\ ~Last(tr).printed THEN front ELSE Append(front, e)

MaxOf(S) == CHOOSE x \in S : \A y \in S : y <= x

\* the trace says what printEvent was called with
TraceMatchesOutput == rendered = EventsOf(trace, TRUE)

\* C1: an event whose identifier is in the seen set at the current watermark is
\* not rendered again: for every identifier, at most one of the events handled
\* under one value of the watermark is rendered (and the rendered events are
\* exactly the ones the trace marks as printed).
C1_NoSecondRender ==
    /\ TraceMatchesOutput
    /\ \A i, j \in 1..Len(trace) :
        (i < j /\ trace[i].id = trace[j].id /\ trace[i].wm = trace[j].wm)
            => ~trace[j].printed

\* an event rendered at the watermark, delivered again with that timestamp in a
\* later poll, and skipped
C1_Witness ==
    \E i, j \in 1..Len(trace) :
        /\ i < j
        /\ trace[i].start /= trace[j].start
        /\ trace[i].id = trace[j].id
        /\ trace[i].ts = trace[i].wm
        /\ trace[j].ts = trace[j].wm
        /\ trace[i].wm = trace[j].wm
        /\ trace[i].printed
        /\ ~trace[j].printed
        /\ rendered = EventsOf(SubSeq(trace, 1, i), TRUE)

\* C2: the watermark is the maximum timestamp of the events handled so far (unset
\* exactly while none has been handled), and no step decreases or unsets it.
C2_WatermarkIsMax ==
    /\ [](lastSeenTime = IF trace = <<>> THEN Nil
                         ELSE Ptr(MaxOf({trace[i].ts : i \in 1..Len(trace)})))
    /\ [][lastSeenTime /= Nil =>
            (lastSeenTime' /= Nil /\ Deref(lastSeenTime') >= Deref(lastSeenTime))]_vars

\* an older event handled after a newer one, in a later poll
C2_Witness ==
    /\ Len(trace) >= 2
    /\ Last(trace).start /= Nil
    /\ Last(trace).ts < Deref(Last(trace).start)
    /\ lastSeenTime = Last(trace).start

\* C3: while no successful log query has separated the failures, the process
\* ends at line 184 exactly when the 50th failure is counted, with code 1, and a
\* successful query after 49 failures in a row leads on to the status query.
C3_RetryCeiling ==
    /\ [](consecErrs = retryCount =>
            /\ (retryCount >= retryLimit <=> exitLine = 184)
            /\ (exitLine = 184 => retryCount = retryLimit /\ exitCode = Ptr(1)
                                  /\ pc = "exited"))
    /\ [][(consecErrs = retryLimit - 1 /\ consecErrs' = 0)
            => (pc' = "DescribeTasks" /\ exitCode' = Nil)]_vars

\* fifty failures in a row, and the exit at the fiftieth
C3_Witness ==
    /\ consecErrs = retryLimit
    /\ retryCount = retryLimit
    /\ exitLine = 184
    /\ exitCode = Ptr(1)

\* C4: the process ends because of a log-query error only when the 50 most
\* recent log queries have all failed.
C4_OnlyConsecutiveErrorsCount == exitLine = 184 => consecErrs >= retryLimit

\* C5: a failed DescribeTasks ends the process in the same step with code 1, at
\* line 199, whatever the retry counter is, and nothing happens after an exit.
C5_StatusErrorFatal ==
    /\ [][(pc = "DescribeTasks" /\ lastResp'.api = "DescribeTasks"
           /\ lastResp'.result = "err")
            => (pc' = "exited" /\ exitCode' = Ptr(1) /\ exitLine' = 199
                /\ retryCount' = retryCount)]_vars
    /\ [][pc = "exited" => UNCHANGED vars]_vars

\* the status query fails after a tolerated log-query error
C5_Witness ==
    /\ exitLine = 199
    /\ exitCode = Ptr(1)
    /\ lastResp = [api |-> "DescribeTasks", result |-> "err"]
    /\ retryCount > 0

\* the entry of the trace at which the watermark last moved
LastAdvance == CHOOSE j \in 1..Len(trace) :
    /\ trace[j].ts = trace[j].wm
    /\ \A m \in 1..(j - 1) : trace[m].wm < trace[j].wm
    /\ \A m \in j..Len(trace) : trace[m].wm = trace[j].wm

Advances(j) == j = 1 \/ trace[j].ts > trace[j - 1].wm

\* C6: an event later than the watermark empties the seen set before it is
\* looked up: it is rendered itself, and so is every later event whose
\* identifier has not come again since, whatever was recorded before; the seen
\* set holds the identifiers handled since the watermark last moved.
C6_AdvanceClears ==
    /\ \A j \in 1..Len(trace) :
        Advances(j) =>
            \A l \in j..Len(trace) :
                (\A m \in j..(l - 1) : trace[m].id /= trace[l].id)
                    => trace[l].printed
    /\ trace /= <<>> =>
        seenEventIDs = Ptr({trace[m].id : m \in LastAdvance..Len(trace)})

\* an identifier rendered under the old watermark is rendered again after a
\* later event has moved the watermark
C6_Witness ==
    \E i, j, l \in 1..Len(trace) :
        /\ i < j
        /\ j < l
        /\ trace[i].printed
        /\ trace[j].wm > trace[i].wm
        /\ trace[l].id = trace[i].id
        /\ trace[l].id /= trace[j].id
        /\ trace[l].printed

PageArns == Concat([i \in 1..Len(responses) |-> responses[i].ClusterArns])

\* C7: the ARNs printed are the pages' ARNs in page order, at every moment; the
\* first request has no token and every other one has the token of the response
\* before; the function returns exactly after the first page without a token.
C7_Pagination ==
    cmd = "clusters list" =>
        /\ listed = PageArns
        /\ Len(requests) = Len(responses)
        /\ \A i \in 1..Len(requests) :
            requests[i] = IF i = 1 THEN Nil ELSE responses[i - 1].NextToken
        /\ \A i \in 1..(Len(responses) - 1) :
            ~responses[i].err /\ responses[i].NextToken /= Nil
        /\ pc = "returned" <=>
            (responses /= <<>> /\ ~Last(responses).err
             /\ Last(responses).NextToken = Nil)

\* two pages, both with ARNs, the second one without a token
C7_Witness ==
    /\ pc = "returned"
    /\ Len(responses) = 2
    /\ responses[1].ClusterArns /= <<>>
    /\ responses[2].ClusterArns /= <<>>
    /\ responses[1].ClusterArns /= responses[2].ClusterArns
    /\ Len(listed) = 2

ScenarioEvents ==
    << [id |-> "a", ts |-> 100], [id |-> "a", ts |-> 100], [id |-> "b", ts |-> 150] >>

\* C8: when the log source has delivered (a, 100), (a, 100), (b, 150), the
\* rendered events are (a, 100), (b, 150) and the watermark is 150.
C8_Scenario ==
    EventsOf(trace, FALSE) = ScenarioEvents =>
        /\ rendered = << [id |-> "a", ts |-> 100], [id |-> "b", ts |-> 150] >>
        /\ lastSeenTime = Ptr(150)

\* the scenario over two polls: the first one ended with the watermark at 100,
\* the second one has ended too
C8_Witness ==
    /\ EventsOf(trace, FALSE) = ScenarioEvents
    /\ trace[1].start = Nil
    /\ trace[2].start = Ptr(100)
    /\ trace[3].start = Ptr(100)
    /\ startTime = Ptr(150)
    /\ retryCount = 0
    /\ Len(rendered) = 2

\* C9: the process ends with code 0 or 1 only: 0 at the graceful ends, 1 at
\* the API errors and the empty run-task result.
C9_ExitCodes ==
    pc = "exited" =>
        /\ exitCode \in {Ptr(0), Ptr(1)}
        /\ exitCode = Ptr(0) <=> exitLine \in {106, 121, 130, 204}
        /\ exitCode = Ptr(1) <=> exitLine \in {25, 81, 97, 102, 184, 199}

\* C10: a failed ListClusters request ends the process in the same step with
\* code 1, nothing is printed by that step, what is printed is the ARNs of the
\* pages before, and no request follows.
C10_ListErrorFatal ==
    /\ [][(cmd = "clusters list" /\ Len(responses') > Len(responses)
           /\ Last(responses').err)
            => (pc' = "exited" /\ exitCode' = Ptr(1) /\ listed' = listed)]_vars
    /\ []((cmd = "clusters list" /\ responses /= <<>> /\ Last(responses).err)
            => (pc = "exited" /\ listed = PageArns
                /\ Len(requests) = Len(responses)))
    /\ [][pc = "exited" => UNCHANGED vars]_vars

\* the second request fails after a first page with ARNs
C10_Witness ==
    /\ cmd = "clusters list"
    /\ Len(responses) = 2
    /\ responses[2].err
    /\ listed /= <<>>
    /\ exitCode = Ptr(1)

LoopPcs == {"FilterLogEventsPages", "DescribeTasks", "Sleep"}

LoopApis == {"FilterLogEvents", "DescribeTasks", "StopTask"}

\* C11: a failed DescribeTaskDefinition, a failed RunTask and a RunTask result
\* without tasks end the process in the same step with code 1, and a successful
\* RunTask without --follow ends it with code 0; in all four cases no log query,
\* no status query and no StopTask call has been issued, and the loop is never
\* entered without --follow.
C11_FailFast ==
    /\ [][(lastResp' /= lastResp /\ lastResp'.api \in {"DescribeTaskDefinition", "RunTask"}
           /\ lastResp'.result \in {"err", "empty"})
            => (pc' = "exited" /\ exitCode' = Ptr(1)
                /\ exitLine' = (IF lastResp'.api = "DescribeTaskDefinition" THEN 81
                                ELSE IF lastResp'.result = "err" THEN 97 ELSE 102))]_vars
    /\ [][(~follow /\ lastResp' /= lastResp
           /\ lastResp' = [api |-> "RunTask", result |-> "ok"])
            => (pc' = "exited" /\ exitCode' = Ptr(0) /\ exitLine' = 106)]_vars
    /\ [](exitLine \in {81, 97, 102, 106} =>
            (issued \cap LoopApis = {} /\ trace = <<>> /\ stopTaskCalls = <<>>
             /\ listener = "none"))
    /\ [](~follow => (pc \notin LoopPcs /\ issued \cap LoopApis = {}))
    /\ [][pc = "exited" => UNCHANGED vars]_vars

\* RunTask has answered without tasks, with --follow and --exit set
C11_Witness ==
    /\ pc = "exited"
    /\ issued = {"DescribeTaskDefinition", "RunTask"}
    /\ exitLine = 102
    /\ exitCode = Ptr(1)
    /\ lastResp = [api |-> "RunTask", result |-> "empty"]
    /\ follow
    /\ exit

\* C12 as claimed: with --exit set the listener can take a signal at any point
\* of the loop, it issues one StopTask call for the launched task, the process
\* then ends with code 0, and the listener leaves the watermark, the seen set and
\* the retry counter alone.
C12_SignalEndsWithZero ==
    /\ [](exit /\ pc \in LoopPcs /\ stopTaskCalls = <<>> => listener = "waiting")
    /\ [](Len(stopTaskCalls) <= 1
          /\ \A i \in 1..Len(stopTaskCalls) : stopTaskCalls[i].Task = taskArn)
    /\ [](stopTaskCalls /= <<>> /\ pc = "exited" => exitCode = Ptr(0))
    /\ [][stopTaskCalls' /= stopTaskCalls
            => UNCHANGED <<lastSeenTime, seenEventIDs, retryCount>>]_vars

\* C12, amended: with --exit set the listener waits for a signal at every point
\* of the loop; a signal it receives makes it issue one StopTask call for the
\* launched task, after which it can always end the process, and its own end of
\* the process (line 121) is with code 0 whatever StopTask returned; while that
\* call is in flight the main goroutine may end the process first, at one of its
\* own exits; the listener leaves the watermark, the seen set and the retry
\* counter alone.
C12_Listener ==
    /\ [](exit /\ pc \in LoopPcs /\ stopTaskCalls = <<>> => listener = "waiting")
    /\ [](Len(stopTaskCalls) <= 1
          /\ \A i \in 1..Len(stopTaskCalls) : stopTaskCalls[i].Task = taskArn)
    /\ [](listener = "StopTask" <=> stopTaskCalls /= <<>>)
    /\ [](listener = "StopTask" /\ pc \in LoopPcs => ENABLED StopTaskReturn)
    /\ [](exitLine = 121 =>
            /\ exitCode = Ptr(0)
            /\ Len(stopTaskCalls) = 1
            /\ stopTaskCalls[1].result \in {"ok", "err"})
    /\ [](stopTaskCalls /= <<>> /\ pc = "exited" /\ exitLine /= 121 =>
            /\ stopTaskCalls[1].result = "pending"
            /\ exitLine \in {184, 199, 202, 204})
    /\ [][stopTaskCalls' /= stopTaskCalls
            => UNCHANGED <<lastSeenTime, seenEventIDs, retryCount>>]_vars

\* a signal after events have been handled and a log query has failed; StopTask
\* fails and the listener ends the process
C12_Witness ==
    /\ exitLine = 121
    /\ exitCode = Ptr(0)
    /\ stopTaskCalls = << [Task |-> taskArn, result |-> "err"] >>
    /\ trace /= <<>>
    /\ retryCount > 0

\* the log driver of the first container definition is not the recognized one:
\* another driver is configured, or none is
NotRecognized ==
    /\ td /= Nil
    /\ (Deref(td) = Nil \/ ~Recognized(Deref(Deref(td))))

\* C13: when the log driver of the first container definition is not awslogs,
\* the command with --follow ends with code 0 once RunTask has answered with a
\* task, and no log query and no status query is ever issued.
C13_OtherDriverNoFollow ==
    /\ NotRecognized =>
            (pc \notin LoopPcs /\ issued \cap {"FilterLogEvents", "DescribeTasks"} = {})
    /\ (NotRecognized /\ follow /\ lastResp = [api |-> "RunTask", result |-> "ok"])
            => (pc = "exited" /\ exitCode = Ptr(0))

\* the main goroutine handles the result of a log-retrieval pass in this step
PassEnds == pc = "FilterLogEventsPages" /\ lastResp' /= lastResp

\* the main goroutine handles the result of a status query in this step
StatusAnswered == pc = "DescribeTasks" /\ lastResp' /= lastResp

\* C14: the loop goes from the log-retrieval pass to one status query, from
\* there to the pause and from there to the next pass; the status query follows
\* a successful pass and a pass that failed below the ceiling; the step that
\* handles the status ends the process with code 0 exactly when the status is
\* STOPPED.
C14_IterationOrder ==
    /\ [][pc = "FilterLogEventsPages"
            => pc' \in {"FilterLogEventsPages", "DescribeTasks", "exited"}]_vars
    /\ [][pc = "DescribeTasks" => pc' \in {"DescribeTasks", "Sleep", "exited"}]_vars
    /\ [][pc = "Sleep" => pc' \in {"Sleep", "FilterLogEventsPages", "exited"}]_vars
    /\ [][(PassEnds /\ (lastResp'.result = "ok" \/ retryCount' < retryLimit))
            => (pc' = "DescribeTasks" /\ lastResp'.api = "FilterLogEventsPages")]_vars
    /\ [][StatusAnswered
            => /\ lastResp'.api = "DescribeTasks"
               /\ pc' \in {"Sleep", "exited"}
               /\ (pc' = "exited" /\ exitCode' = Ptr(0)) <=> lastResp'.result = "STOPPED"
               /\ pc' = "Sleep" <=> lastResp'.result = "RUNNING"]_vars
    /\ [][(pc \in {"DescribeTasks", "Sleep"} /\ pc' = pc)
            => (lastResp' = lastResp /\ UNCHANGED loopState)]_vars

\* the pause after a status query that followed a tolerated failure of the pass
C14_Witness ==
    /\ pc = "Sleep"
    /\ lastResp = [api |-> "DescribeTasks", result |-> "RUNNING"]
    /\ consecErrs > 0
    /\ trace /= <<>>

\* the entries of the trace handled since the watermark took its current value
SinceAdvance == { m \in 1..Len(trace) : m >= LastAdvance }

\* C15 as stated: every identifier of the seen set was recorded from an event
\* whose timestamp equals the current watermark.
C15_SeenAtWatermark ==
    (seenEventIDs /= Nil /\ lastSeenTime /= Nil) =>
        \A id \in Deref(seenEventIDs) :
            \E m \in SinceAdvance :
                /\ trace[m].id = id
                /\ trace[m].printed
                /\ trace[m].ts = Deref(lastSeenTime)

\* C15 amended: the seen set is exactly the set of identifiers of the events
\* handled since the watermark took its current value; each of them has a
\* timestamp at or below the watermark, and the first of them has the
\* watermark's timestamp.
C15_SeenSinceAdvance ==
    (seenEventIDs /= Nil /\ lastSeenTime /= Nil) =>
        /\ Deref(seenEventIDs) = { trace[m].id : m \in SinceAdvance }
        /\ \A m \in SinceAdvance : trace[m].ts <= Deref(lastSeenTime)
        /\ trace[LastAdvance].ts = Deref(lastSeenTime)

\* an older event was recorded after the watermark advanced
C15_Witness ==
    /\ seenEventIDs /= Nil
    /\ lastSeenTime /= Nil
    /\ \E m \in SinceAdvance :
          /\ trace[m].ts < Deref(lastSeenTime)
          /\ trace[m].printed
          /\ trace[m].id \in Deref(seenEventIDs)
          /\ trace[m].id /= trace[LastAdvance].id

\* C16: the first log query has no start time; between two passes the start
\* time of the next query is the watermark the previous pass ended with, also
\* after a tolerated error; the start time does not move during a pass; it is
\* unset as long as no event has been processed.
C16_StartFromWatermark ==
    /\ [](lastResp.api = "RunTask" => startTime = Nil)
    /\ [](trace = <<>> => startTime = Nil)
    /\ [](pc \in {"DescribeTasks", "Sleep"} => startTime = lastSeenTime)
    /\ [][(PassEnds /\ pc' = "DescribeTasks") => startTime' = lastSeenTime']_vars
    /\ [][~PassEnds => startTime' = startTime]_vars
    /\ [](\A m \in 1..Len(trace) :
            trace[m].start = Nil \/ Deref(trace[m].start) <= trace[m].wm)

\* a later query, issued after a tolerated error, that starts at the watermark
\* the failed pass ended with
C16_Witness ==
    /\ pc = "FilterLogEventsPages"
    /\ lastResp = [api |-> "DescribeTasks", result |-> "RUNNING"]
    /\ consecErrs > 0
    /\ startTime = Ptr(150)
    /\ lastSeenTime = Ptr(150)
    /\ \E m \in 1..Len(trace) : trace[m].start = Nil

\* the position of the last sep in s, 0 when there is none
LastIndex(s, sep) ==
    LET at == { i \in 1..Len(s) : s[i] = sep }
    IN  IF at = {} THEN 0 ELSE CHOOSE i \in at : \A k \in at : k <= i

\* the part of s after its last sep
AfterLastSep(s, sep) == SubSeq(s, LastIndex(s, sep) + 1, Len(s))

\* C17: once derived, the task ID is the part of the task ARN after its last
\* '/'.
C17_TaskIDAfterLastSlash ==
    (taskID /= Nil /\ LastIndex(taskArn, "/") > 0) => taskID = AfterLastSep(taskArn, "/")

\* C18: once the follow loop is entered, the process eventually exits with
\* code 0.
C18_EventuallyExitsZero ==
    (pc = "FilterLogEventsPages") ~> (pc = "exited" /\ exitCode = Ptr(0))

\* the identifiers delivered to handlePage, and the identifiers rendered
DeliveredIds == { trace[m].id : m \in 1..Len(trace) }

RenderedIds == { rendered[k].id : k \in 1..Len(rendered) }

\* C19: every identifier delivered to handlePage has been rendered, and an
\* event is skipped only when an event with its identifier was rendered
\* before it.
C19_NoIdLost ==
    /\ DeliveredIds \subseteq RenderedIds
    /\ \A m \in 1..Len(trace) :
          ~trace[m].printed =>
              \E k \in 1..(m - 1) : trace[k].printed /\ trace[k].id = trace[m].id

\* at the end of a pass: two identifiers delivered, one of them twice and
\* skipped the second time, both rendered
C19_Witness ==
    /\ pc = "DescribeTasks"
    /\ lastResp = [api |-> "FilterLogEventsPages", result |-> "ok"]
    /\ DeliveredIds = EventIds
    /\ RenderedIds = EventIds
    /\ \E m \in 1..Len(trace) : ~trace[m].printed

\* the last status query found the task stopped
SawStopped == lastResp = [api |-> "DescribeTasks", result |-> "STOPPED"]

\* C20: the step that handles a STOPPED status ends the process with code 0 at
\* once, without another log query; from then on nothing is queried and
\* nothing is rendered, whatever the log source still holds.
C20_NoQueryAfterStopped ==
    /\ [](SawStopped => (pc = "exited" /\ exitCode = Ptr(0) /\ exitLine = 204))
    /\ [][SawStopped' => (rendered' = rendered /\ trace' = trace)]_vars
    /\ [][SawStopped => UNCHANGED <<pc, issued, rendered, trace, lastResp>>]_vars

\* the task was found stopped after a pass that rendered an event, while the
\* log source had more to deliver
C20_Witness ==
    /\ SawStopped
    /\ pc = "exited"
    /\ exitLine = 204
    /\ rendered /= <<>>
    /\ Len(trace) < budget.events

=============================================================================
